---------------------------- MODULE Spec2Model ----------------------------
(***************************************************************************)
(* Retrieval pipeline of docChat: segmentation (document_processor.py),    *)
(* embedding (embedding_service.py), similarity index (vector_search.py)   *)
(* and the background ingestion that ties them (api/documents.py).         *)
(*                                                                         *)
(* Text is a sequence of one-character strings.  Real numbers are fixed    *)
(* point integers in thousandths (0.1 is 100, 1.0 is 1000).                *)
(***************************************************************************)
EXTENDS Integers, Sequences, FiniteSets, TLC

VARIABLES
    document_embeddings,         \* rows of table document_embeddings, in storage order
    documents,                   \* table documents and the file of each, by document id
    sentence_transformer_model,  \* embedding_service global: "None" or "loaded"
    tfidf_vectorizer,            \* embedding_service global: None, unfitted or fitted
    task,                        \* the background ingestion tasks, by document id
    call,                        \* the call under way or last returned: arguments, result
    history                      \* by chunk id, the last upsert made of it (not program state)

vars == <<document_embeddings, documents, sentence_transformer_model, tfidf_vectorizer,
          task, call, history>>

\* everything but the call
world == <<document_embeddings, documents, sentence_transformer_model, tfidf_vectorizer,
           task, history>>

(***************************************************************************)
(* Bounds of the model.                                                    *)
(***************************************************************************)
MaxSentences == 3        \* sentences per page in the segmentation inputs
MaxUuid == 2             \* distinct values of uuid4().hex[:8] the model draws from
MaxDim == 2              \* longest vector handed to cosine_similarity_score on its own
MaxRows == 3             \* rows of document_embeddings in the search inputs
max_features == 3        \* TfidfVectorizer(max_features=384), the dimension of the dense
                         \* encoder it is set to match: scaled down together

(***************************************************************************)
(* Text helpers.                                                           *)
(***************************************************************************)
Letters == {"a", "b", "c"}
Whitespace == {" "}
Terminators == {".", "!", "?"}
Alphabet == Letters \cup Whitespace \cup Terminators

Elems(seq) == {seq[i] : i \in 1..Len(seq)}

\* n copies of character c
Rep(c, n) == [i \in 1..n |-> c]

RECURSIVE lstrip(_)
lstrip(s) == IF s # <<>> /\ Head(s) \in Whitespace THEN lstrip(Tail(s)) ELSE s

RECURSIVE rstrip(_)
rstrip(s) ==
    IF s # <<>> /\ s[Len(s)] \in Whitespace THEN rstrip(SubSeq(s, 1, Len(s) - 1)) ELSE s

\* str.strip()
strip(s) == rstrip(lstrip(s))

\* " ".join(seq)
RECURSIVE join(_)
join(seq) ==
    IF seq = <<>> THEN <<>>
    ELSE IF Len(seq) = 1 THEN seq[1]
    ELSE seq[1] \o <<" ">> \o join(Tail(seq))

\* re.split(r'[.!?]+', text): the fragments between runs of terminators
RECURSIVE re_split(_, _, _)
re_split(text, i, cur) ==
    IF i > Len(text) THEN <<cur>>
    ELSE IF text[i] \in Terminators
         THEN IF i > 1 /\ text[i - 1] \in Terminators
              THEN re_split(text, i + 1, cur)
              ELSE <<cur>> \o re_split(text, i + 1, <<>>)
         ELSE re_split(text, i + 1, Append(cur, text[i]))

RECURSIVE clean_sentences(_)
clean_sentences(fragments) ==
    IF fragments = <<>> THEN <<>>
    ELSE LET sentence == strip(Head(fragments))
         IN  IF sentence # <<>> /\ Len(sentence) > 10
             THEN <<sentence>> \o clean_sentences(Tail(fragments))
             ELSE clean_sentences(Tail(fragments))

_split_into_sentences(text) == clean_sentences(re_split(text, 1, <<>>))

(***************************************************************************)
(* chunk_text.  uuids[k + 1] is the value uuid4().hex[:8] takes when the   *)
(* chunk of index k is saved.                                              *)
(***************************************************************************)
\* f"chunk_{chunk_index}_{uuid.uuid4().hex[:8]}"
make_chunk_id(chunk_index, uuids) == <<"chunk", chunk_index, uuids[chunk_index + 1]>>

chunk_data(st, page_number, uuids) ==
    [chunk_id |-> make_chunk_id(st.chunk_index, uuids),
     chunk_index |-> st.chunk_index,
     content |-> strip(st.current_chunk),
     page_number |-> page_number,
     sentence_count |-> Len(st.current_sentences)]

\* chunks.append(chunk_data); chunk_index += 1, when the current chunk has content
save_chunk(st, page_number, uuids) ==
    IF strip(st.current_chunk) # <<>>
    THEN [st EXCEPT !.chunks = Append(@, chunk_data(st, page_number, uuids)),
                    !.chunk_index = @ + 1]
    ELSE st

\* current_chunk += (" " + sentence) if current_chunk else sentence
add_sentence(st, sentence) ==
    [st EXCEPT !.current_chunk = IF @ # <<>> THEN @ \o <<" ">> \o sentence ELSE sentence,
               !.current_sentences = Append(@, sentence)]

\* start_new_chunk with the overlap window forgotten
start_new_chunk_no_overlap(st, chunk_overlap) ==
    [st EXCEPT !.current_chunk = <<>>, !.current_sentences = <<>>]

\* the overlap window a new chunk starts with
start_new_chunk(st, chunk_overlap) ==
    IF chunk_overlap > 0 /\ st.current_sentences # <<>>
    THEN LET overlap_count == IF chunk_overlap \div 100 > 1 THEN chunk_overlap \div 100 ELSE 1
             n == Len(st.current_sentences)
             overlap_sentences ==
                 IF n > overlap_count
                 THEN SubSeq(st.current_sentences, n - overlap_count + 1, n)
                 ELSE st.current_sentences
         IN  [st EXCEPT !.current_chunk = join(overlap_sentences),
                        !.current_sentences = overlap_sentences]
    ELSE [st EXCEPT !.current_chunk = <<>>, !.current_sentences = <<>>]

\* one iteration of the loop over the sentences of a page
chunk_sentence(st, sentence, page_number, chunk_size, chunk_overlap, uuids) ==
    LET proposed_chunk_len == Len(st.current_chunk) + 1 + Len(sentence)
    IN  IF proposed_chunk_len <= chunk_size
        THEN add_sentence(st, sentence)
        ELSE add_sentence(
                 start_new_chunk(save_chunk(st, page_number, uuids), chunk_overlap),
                 sentence)

RECURSIVE chunk_sentences(_, _, _, _, _, _)
chunk_sentences(st, sentences, page_number, chunk_size, chunk_overlap, uuids) ==
    IF sentences = <<>> THEN st
    ELSE chunk_sentences(
             chunk_sentence(st, Head(sentences), page_number, chunk_size, chunk_overlap, uuids),
             Tail(sentences), page_number, chunk_size, chunk_overlap, uuids)

\* chunk_page with current_chunk and current_sentences kept from the page before
chunk_page_carrying(st, page, chunk_size, chunk_overlap, uuids) ==
    save_chunk(
        chunk_sentences(st, _split_into_sentences(page.text), page.page_number,
                        chunk_size, chunk_overlap, uuids),
        page.page_number, uuids)

\* chunk_page without the save of the last chunk of the page
chunk_page_dropping_last(st, page, chunk_size, chunk_overlap, uuids) ==
    chunk_sentences([st EXCEPT !.current_chunk = <<>>, !.current_sentences = <<>>],
                    _split_into_sentences(page.text), page.page_number,
                    chunk_size, chunk_overlap, uuids)

\* one iteration of the loop over the pages
chunk_page(st, page, chunk_size, chunk_overlap, uuids) ==
    save_chunk(
        chunk_sentences([st EXCEPT !.current_chunk = <<>>, !.current_sentences = <<>>],
                        _split_into_sentences(page.text), page.page_number,
                        chunk_size, chunk_overlap, uuids),
        page.page_number, uuids)

RECURSIVE chunk_pages(_, _, _, _, _)
chunk_pages(st, pages, chunk_size, chunk_overlap, uuids) ==
    IF pages = <<>> THEN st
    ELSE chunk_pages(chunk_page(st, Head(pages), chunk_size, chunk_overlap, uuids),
                     Tail(pages), chunk_size, chunk_overlap, uuids)

chunk_text(pages, chunk_size, chunk_overlap, uuids) ==
    chunk_pages([chunks |-> <<>>, chunk_index |-> 0,
                 current_chunk |-> <<>>, current_sentences |-> <<>>],
                pages, chunk_size, chunk_overlap, uuids).chunks

(***************************************************************************)
(* Similarity of two embeddings (embedding_service.py).  Components and    *)
(* scores are in thousandths.                                              *)
(***************************************************************************)
Abs(x) == IF x < 0 THEN -x ELSE x

\* division of fixed point numbers, rounding toward zero
Quot(x, y) == IF x < 0 THEN -((-x) \div y) ELSE x \div y

RECURSIVE isqrt_between(_, _, _)
isqrt_between(lo, hi, x) ==
    IF lo >= hi THEN lo
    ELSE LET mid == (lo + hi + 1) \div 2
         IN  IF mid * mid <= x THEN isqrt_between(mid, hi, x)
             ELSE isqrt_between(lo, mid - 1, x)

\* the integer square root
isqrt(x) == isqrt_between(0, IF x < 46340 THEN x ELSE 46340, x)

RECURSIVE sum_abs(_)
sum_abs(embedding) ==
    IF embedding = <<>> THEN 0 ELSE Abs(Head(embedding)) + sum_abs(Tail(embedding))

RECURSIVE sum_squares(_)
sum_squares(embedding) ==
    IF embedding = <<>> THEN 0
    ELSE Head(embedding) * Head(embedding) + sum_squares(Tail(embedding))

RECURSIVE dot(_, _)
dot(u, v) == IF u = <<>> THEN 0 ELSE Head(u) * Head(v) + dot(Tail(u), Tail(v))

\* sklearn normalize(): a row of norm 0 is left as it is
l2_normalize(embedding) ==
    LET norm == isqrt(sum_squares(embedding))
    IN  IF norm = 0 THEN embedding
        ELSE [i \in 1..Len(embedding) |-> Quot(embedding[i] * 1000, norm)]

\* sklearn cosine_similarity(vec1, vec2)[0][0] of two rows of equal length
sklearn_cosine_similarity(vec1, vec2) ==
    Quot(dot(l2_normalize(vec1), l2_normalize(vec2)), 1000)

\* _fallback_similarity answering 0.1 whatever the vectors hold
_fallback_similarity_always(embedding1, embedding2) == 100

\* the bare except of line 234 (0.05) is entered only when an element is not
\* a number, which a List[float] never holds
_fallback_similarity(embedding1, embedding2) ==
    LET sum1 == sum_abs(embedding1)
        sum2 == sum_abs(embedding2)
    IN  IF sum1 > 0 /\ sum2 > 0 THEN 100 ELSE 0

\* sklearn's check_array refuses an array with no feature: the except branch
cosine_raises(embedding1, embedding2) == Len(embedding1) = 0

cosine_similarity_score(embedding1, embedding2) ==
    IF Len(embedding1) # Len(embedding2)
    THEN _fallback_similarity(embedding1, embedding2)
    ELSE IF cosine_raises(embedding1, embedding2)
         THEN _fallback_similarity(embedding1, embedding2)
         ELSE sklearn_cosine_similarity(embedding1, embedding2)

(***************************************************************************)
(* The embedding strategies (embedding_service.py).  A fitted vectorizer   *)
(* is [state |-> "fitted", vocabulary, idf]: the terms in index order and  *)
(* the weight of each.                                                     *)
(***************************************************************************)
CharCode(c) ==
    CASE c = " " -> 32 [] c = "!" -> 33 [] c = "." -> 46 [] c = "?" -> 63
      [] c = "a" -> 97 [] c = "b" -> 98 [] c = "c" -> 99

\* str < str: code point order, a proper prefix first
RECURSIVE StrLess(_, _)
StrLess(s, t) ==
    IF t = <<>> THEN FALSE
    ELSE IF s = <<>> THEN TRUE
    ELSE IF Head(s) # Head(t) THEN CharCode(Head(s)) < CharCode(Head(t))
    ELSE StrLess(Tail(s), Tail(t))

\* sorted(terms)
RECURSIVE SortTerms(_)
SortTerms(terms) ==
    IF terms = {} THEN <<>>
    ELSE LET first == CHOOSE t \in terms : \A u \in terms \ {t} : StrLess(t, u)
         IN  <<first>> \o SortTerms(terms \ {first})

RECURSIVE Count(_, _)
Count(x, seq) ==
    IF seq = <<>> THEN 0
    ELSE (IF Head(seq) = x THEN 1 ELSE 0) + Count(x, Tail(seq))

\* the maximal runs of characters of `text` that lie in `chars`
RECURSIVE runs(_, _, _)
runs(text, chars, cur) ==
    IF text = <<>> THEN (IF cur = <<>> THEN <<>> ELSE <<cur>>)
    ELSE IF Head(text) \in chars
         THEN runs(Tail(text), chars, Append(cur, Head(text)))
         ELSE (IF cur = <<>> THEN <<>> ELSE <<cur>>) \o runs(Tail(text), chars, <<>>)

RECURSIVE SelectSeq2(_, _)
SelectSeq2(seq, keep) ==
    IF seq = <<>> THEN <<>>
    ELSE IF Head(seq) \in keep THEN <<Head(seq)>> \o SelectSeq2(Tail(seq), keep)
    ELSE SelectSeq2(Tail(seq), keep)

\* stop_words='english': no word over the letters of the model is in the list
ENGLISH_STOP_WORDS == {}

\* token_pattern (?u)\b\w\w+\b, stop words removed
tokenize(text) ==
    LET words == runs(text, Letters, <<>>)
        long == {words[i] : i \in {j \in 1..Len(words) : Len(words[j]) >= 2}}
    IN  SelectSeq2(words, long \ ENGLISH_STOP_WORDS)

\* ngram_range=(1, 2): the tokens, then each pair of neighbours joined by a space
analyze(text) ==
    LET tokens == tokenize(text)
    IN  tokens \o [i \in 1..(Len(tokens) - 1) |-> tokens[i] \o <<" ">> \o tokens[i + 1]]

\* ln(k) in thousandths
LN == <<0, 693, 1099, 1386, 1609, 1792, 1946, 2079, 2197, 2303, 2398, 2485>>

\* F(x), with x computed once
Apply(F(_), x) == CHOOSE y \in {F(v) : v \in {x}} : TRUE

\* the terms of each text
analyze_all(texts) == [i \in 1..Len(texts) |-> analyze(texts[i])]

RECURSIVE total_count(_, _)
total_count(term, analyzed) ==
    IF analyzed = <<>> THEN 0
    ELSE Count(term, Head(analyzed)) + total_count(term, Tail(analyzed))

RECURSIVE document_frequency(_, _)
document_frequency(term, analyzed) ==
    IF analyzed = <<>> THEN 0
    ELSE (IF Count(term, Head(analyzed)) > 0 THEN 1 ELSE 0)
         + document_frequency(term, Tail(analyzed))

\* the `limit` terms of highest total count, equal counts in term order
RECURSIVE top_terms(_, _, _)
top_terms(terms, analyzed, limit) ==
    IF terms = {} \/ limit = 0 THEN {}
    ELSE LET best == CHOOSE t \in terms : \A u \in terms \ {t} :
                         \/ total_count(t, analyzed) > total_count(u, analyzed)
                         \/ /\ total_count(t, analyzed) = total_count(u, analyzed)
                            /\ StrLess(t, u)
         IN  {best} \cup top_terms(terms \ {best}, analyzed, limit - 1)

all_terms(analyzed) == UNION {Elems(analyzed[i]) : i \in 1..Len(analyzed)}

\* fit raises ValueError (empty vocabulary) when no text holds a term
fit_raises(texts) == all_terms(analyze_all(texts)) = {}

\* the fitted vectorizer: the vocabulary in term order, idf smoothed
fitted_vectorizer(vocabulary, analyzed) ==
    [state |-> "fitted",
     vocabulary |-> vocabulary,
     idf |-> [i \in 1..Len(vocabulary) |->
                 1000 + LN[1 + Len(analyzed)]
                      - LN[1 + document_frequency(vocabulary[i], analyzed)]]]

\* TfidfVectorizer(max_features, stop_words='english', ngram_range=(1, 2)).fit(texts)
fit(texts) ==
    LET fit_analyzed(analyzed) ==
            LET with_vocabulary(vocabulary) == fitted_vectorizer(vocabulary, analyzed)
            IN  Apply(with_vocabulary,
                      SortTerms(top_terms(all_terms(analyzed), analyzed, max_features)))
    IN  Apply(fit_analyzed, analyze_all(texts))

\* vectorizer.transform([text]).toarray()[0]: tf * idf, rows normalised
transform(vectorizer, text) ==
    LET terms == analyze(text)
    IN  l2_normalize([i \in 1..Len(vectorizer.vocabulary) |->
                         Count(vectorizer.vocabulary[i], terms) * vectorizer.idf[i]])

transform_all(vectorizer, texts) ==
    [i \in 1..Len(texts) |-> transform(vectorizer, texts[i])]

\* the space a vector lies in: the strategy and what it was fitted on
NoSpace == [strategy |-> "none", vocabulary |-> <<>>]
tfidf_space(vectorizer) ==
    [strategy |-> "tfidf", vocabulary |-> vectorizer.vocabulary, idf |-> vectorizer.idf]

\* _generate_tfidf_embeddings: the global vectorizer is created and fitted when
\* it is None, used as it is otherwise; a transform that raises (the vectorizer
\* was created but its fit raised) is answered by a refit on the texts
_generate_tfidf_embeddings(vectorizer, texts) ==
    IF vectorizer.state = "fitted"
    THEN [raised |-> FALSE, embeddings |-> transform_all(vectorizer, texts),
          vectorizer |-> vectorizer, space |-> tfidf_space(vectorizer)]
    ELSE IF fit_raises(texts)
    THEN [raised |-> TRUE, embeddings |-> <<>>, vectorizer |-> [state |-> "unfitted"],
          space |-> NoSpace]
    ELSE LET fit_transform(fitted) ==
                 [raised |-> FALSE, embeddings |-> transform_all(fitted, texts),
                  vectorizer |-> fitted, space |-> tfidf_space(fitted)]
         IN  Apply(fit_transform, fit(texts))

\* text.lower().split()
split_words(text) == runs(text, Alphabet \ Whitespace, <<>>)

basic_vocab(texts) == SortTerms(UNION {Elems(split_words(texts[i])) : i \in 1..Len(texts)})

\* _generate_basic_embeddings: word counts over the words of the batch, divided
\* by their sum
_generate_basic_embeddings(texts) ==
    LET vocab == basic_vocab(texts)
        counts(text) == [i \in 1..Len(vocab) |-> Count(vocab[i], split_words(text))]
        total(text) == IF sum_abs(counts(text)) = 0 THEN 1 ELSE sum_abs(counts(text))
    IN  [k \in 1..Len(texts) |->
            [i \in 1..Len(vocab) |-> Quot(counts(texts[k])[i] * 1000, total(texts[k]))]]

\* sentence_transformer_model.encode([text])[0]: a vector of fixed length that
\* depends on the text alone
encode(text) ==
    l2_normalize([i \in 1..max_features |->
        1000 * Cardinality({p \in 1..Len(text) : CharCode(text[p]) % max_features = i - 1})])

\* the outcome of a strategy that returned `embeddings`
embedded(embeddings, vectorizer, space, attempts) ==
    [raised |-> FALSE, embeddings |-> embeddings, vectorizer |-> vectorizer,
     space |-> space, attempts |-> attempts]

dense_space == [strategy |-> "sentence_transformer", vocabulary |-> <<>>]
basic_space(texts) == [strategy |-> "basic", vocabulary |-> basic_vocab(texts)]

\* strategy 3, outside any try: what _generate_basic_embeddings raises, the
\* call raises
last_resort(texts, vectorizer, basic_ok, attempts) ==
    IF basic_ok
    THEN embedded(_generate_basic_embeddings(texts), vectorizer, basic_space(texts),
                  Append(attempts, "basic"))
    ELSE [raised |-> TRUE, embeddings |-> <<>>, vectorizer |-> vectorizer,
          space |-> NoSpace, attempts |-> Append(attempts, "basic")]

\* strategy 2 in its try, then strategy 3
sparse_then_basic(texts, vectorizer, basic_ok, attempts) ==
    LET fallback(tfidf) ==
            IF ~tfidf.raised
            THEN embedded(tfidf.embeddings, tfidf.vectorizer, tfidf.space,
                          Append(attempts, "tfidf"))
            ELSE last_resort(texts, tfidf.vectorizer, basic_ok, Append(attempts, "tfidf"))
    IN  Apply(fallback, _generate_tfidf_embeddings(vectorizer, texts))

\* generate_embeddings with strategies 1 and 2 in the other order
generate_embeddings_sparse_first(texts, model, vectorizer, encode_ok, basic_ok) ==
    IF texts = <<>>
    THEN embedded(<<>>, vectorizer, NoSpace, <<>>)
    ELSE LET fallback(tfidf) ==
                 IF ~tfidf.raised
                 THEN embedded(tfidf.embeddings, tfidf.vectorizer, tfidf.space, <<"tfidf">>)
                 ELSE IF model # "None" /\ encode_ok
                 THEN embedded([i \in 1..Len(texts) |-> encode(texts[i])], tfidf.vectorizer,
                               dense_space, <<"tfidf", "sentence_transformer">>)
                 ELSE last_resort(texts, tfidf.vectorizer, basic_ok,
                                  IF model # "None"
                                  THEN <<"tfidf", "sentence_transformer">> ELSE <<"tfidf">>)
         IN  Apply(fallback, _generate_tfidf_embeddings(vectorizer, texts))

\* generate_embeddings(texts), method "auto": [] for no texts; the dense model
\* when it is loaded; TF-IDF when there is no model or encode raised; the
\* basic vectors when TF-IDF raised.  attempts: the strategies entered.
\* encode_ok = FALSE: the encoder raises at run time; basic_ok = FALSE:
\* _generate_basic_embeddings raises at run time.
generate_embeddings(texts, model, vectorizer, encode_ok, basic_ok) ==
    IF texts = <<>>
    THEN embedded(<<>>, vectorizer, NoSpace, <<>>)
    ELSE IF model # "None" /\ encode_ok
    THEN embedded([i \in 1..Len(texts) |-> encode(texts[i])], vectorizer, dense_space,
                  <<"sentence_transformer">>)
    ELSE sparse_then_basic(texts, vectorizer, basic_ok,
                           IF model # "None" THEN <<"sentence_transformer">> ELSE <<>>)

\* generate_query_embedding(query) over the contents of all stored rows:
\* [] when there is none or anything raises, else the query transformed by a
\* vectorizer fitted on the contents and the query
generate_query_embedding(table, db_ok, query) ==
    LET chunk_texts == [i \in 1..Len(table) |-> table[i].content]
        all_texts == Append(chunk_texts, query)
    IN  IF ~db_ok \/ table = <<>> \/ fit_raises(all_texts)
        THEN [embedding |-> <<>>, space |-> NoSpace]
        ELSE LET transform_query(vectorizer) ==
                     [embedding |-> transform(vectorizer, query),
                      space |-> tfidf_space(vectorizer)]
             IN  Apply(transform_query, fit(all_texts))

(***************************************************************************)
(* search_similar_chunks (vector_search.py).  An Optional[List[str]] is a  *)
(* record: is_none, and the list in value.                                 *)
(***************************************************************************)
None == [is_none |-> TRUE, value |-> <<>>]
Some(list) == [is_none |-> FALSE, value |-> list]

\* Python truth value of an optional list: None and [] are both false
truthy(document_ids) == ~document_ids.is_none /\ document_ids.value # <<>>

RECURSIVE filter_rows(_, _)
filter_rows(table, ids) ==
    IF table = <<>> THEN <<>>
    ELSE IF Head(table).documentId \in ids
         THEN <<Head(table)>> \o filter_rows(Tail(table), ids)
         ELSE filter_rows(Tail(table), ids)

\* conn.fetch(query, *params): WHERE "documentId" = ANY($1) only when document_ids is true
fetch_rows(table, document_ids) ==
    IF truthy(document_ids) THEN filter_rows(table, Elems(document_ids.value)) ELSE table

hit(row, similarity) ==
    [chunk_id |-> row.chunkId, content |-> row.content, page_number |-> row.pageNumber,
     document_id |-> row.documentId, similarity |-> similarity]

\* the scoring loop with the threshold test dropped
RECURSIVE score_rows_unfiltered(_, _, _)
score_rows_unfiltered(rows, query_embedding, similarity_threshold) ==
    IF rows = <<>> THEN <<>>
    ELSE <<hit(Head(rows), cosine_similarity_score(query_embedding, Head(rows).embedding))>>
         \o score_rows_unfiltered(Tail(rows), query_embedding, similarity_threshold)

\* the loop over the rows: score each, keep those at or above the threshold
RECURSIVE score_rows(_, _, _)
score_rows(rows, query_embedding, similarity_threshold) ==
    IF rows = <<>> THEN <<>>
    ELSE LET similarity == cosine_similarity_score(query_embedding, Head(rows).embedding)
             rest == score_rows(Tail(rows), query_embedding, similarity_threshold)
         IN  IF similarity >= similarity_threshold
             THEN <<hit(Head(rows), similarity)>> \o rest
             ELSE rest

\* insert x behind every element whose similarity is at least x's
RECURSIVE insert_desc(_, _)
insert_desc(sorted, x) ==
    IF sorted = <<>> THEN <<x>>
    ELSE IF Head(sorted).similarity >= x.similarity
         THEN <<Head(sorted)>> \o insert_desc(Tail(sorted), x)
         ELSE <<x>> \o sorted

\* insert x before the elements of equal similarity
RECURSIVE insert_desc_unstable(_, _)
insert_desc_unstable(sorted, x) ==
    IF sorted = <<>> THEN <<x>>
    ELSE IF Head(sorted).similarity > x.similarity
         THEN <<Head(sorted)>> \o insert_desc_unstable(Tail(sorted), x)
         ELSE <<x>> \o sorted

RECURSIVE sort_unstable(_, _)
sort_unstable(results, sorted) ==
    IF results = <<>> THEN sorted
    ELSE sort_unstable(Tail(results), insert_desc_unstable(sorted, Head(results)))

RECURSIVE sort_stable(_, _)
sort_stable(results, sorted) ==
    IF results = <<>> THEN sorted
    ELSE sort_stable(Tail(results), insert_desc(sorted, Head(results)))

\* a sort by similarity that turns the order of equal hits around
sort_by_similarity_ties_reversed(results) == sort_unstable(results, <<>>)

\* results.sort(key=lambda x: x['similarity'], reverse=True): stable, descending
sort_by_similarity(results) == sort_stable(results, <<>>)

\* the last limit elements instead of the first
truncate_tail(results, limit) ==
    SubSeq(results, IF limit < Len(results) THEN Len(results) - limit + 1 ELSE 1,
           Len(results))

\* results[:limit] for limit >= 0
truncate(results, limit) ==
    SubSeq(results, 1, IF limit < Len(results) THEN limit ELSE Len(results))

\* db_ok = FALSE: acquiring the connection or the fetch raises, and the
\* outer except returns []
search_similar_chunks(table, db_ok, query_embedding, document_ids, limit, similarity_threshold) ==
    IF ~db_ok THEN <<>>
    ELSE LET rows == fetch_rows(table, document_ids)
         IN  IF Len(rows) = 0 THEN <<>>
             ELSE truncate(
                      sort_by_similarity(
                          score_rows(rows, query_embedding, similarity_threshold)),
                      limit)

(***************************************************************************)
(* Segmentation on its own: chunk_text applied to bounded inputs.          *)
(***************************************************************************)
Uuids == 0..(MaxUuid - 1)
SentenceLens == {11, 13}
ChunkSizes == {12, 24}
ChunkOverlaps == {0, 100, 200}

SentenceKinds == {Rep(c, n) : c \in {"a", "b"}, n \in SentenceLens}
SentenceSeqs == UNION {[1..k -> SentenceKinds] : k \in 1..MaxSentences}

\* the text of a page holding the given sentences: "s1. s2. s3."
RECURSIVE page_text(_)
page_text(sentences) ==
    IF sentences = <<>> THEN <<>>
    ELSE IF Len(sentences) = 1 THEN sentences[1] \o <<".">>
    ELSE sentences[1] \o <<".", " ">> \o page_text(Tail(sentences))

\* what extraction hands over: pages numbered from 1, none empty
PageInputs ==
    UNION {
        {<< [page_number |-> 1, text |-> page_text(ss)] >>}
        \cup
        {<< [page_number |-> 1, text |-> page_text(SubSeq(ss, 1, j))],
            [page_number |-> 2, text |-> page_text(SubSeq(ss, j + 1, Len(ss)))] >>
           : j \in 1..(Len(ss) - 1)}
        : ss \in SentenceSeqs}

NoUuids == [k \in 1..0 |-> 0]
NumChunks(pages, chunk_size, chunk_overlap) ==
    LET total == Len(pages) * (MaxSentences + 1)
    IN  Len(chunk_text(pages, chunk_size, chunk_overlap, [k \in 1..total |-> 0]))

NoCall == [op |-> "none", status |-> "done"]

\* a process that has ingested nothing
IdleGlobals ==
    /\ document_embeddings = <<>>
    /\ documents = <<>>
    /\ sentence_transformer_model = "None"
    /\ tfidf_vectorizer = [state |-> "None"]
    /\ task = <<>>
    /\ history = <<>>

\* a caller is about to run chunk_text(pages, chunk_size, chunk_overlap)
InitChunk ==
    /\ IdleGlobals
    /\ \E pages \in PageInputs, chunk_size \in ChunkSizes, chunk_overlap \in ChunkOverlaps :
          call = [op |-> "chunk_text", status |-> "pending", pages |-> pages,
                  chunk_size |-> chunk_size, chunk_overlap |-> chunk_overlap]

ChunkTextCall ==
    /\ call.op = "chunk_text" /\ call.status = "pending"
    /\ \E uuids \in [1..NumChunks(call.pages, call.chunk_size, call.chunk_overlap) -> Uuids] :
          call' = [op |-> "chunk_text", status |-> "done", pages |-> call.pages,
                   chunk_size |-> call.chunk_size, chunk_overlap |-> call.chunk_overlap,
                   result |-> chunk_text(call.pages, call.chunk_size, call.chunk_overlap, uuids)]
    /\ UNCHANGED world

NextChunk == ChunkTextCall

SpecChunk == InitChunk /\ [][NextChunk]_vars

(***************************************************************************)
(* Claims about segmentation (checked under SpecChunk).                    *)
(***************************************************************************)
ChunkCallDone == call.op = "chunk_text" /\ call.status = "done"

\* the retained sentences of the page with the given number
PageSentences(pages, page_number) ==
    LET page == CHOOSE p \in {pages[i] : i \in 1..Len(pages)} : p.page_number = page_number
    IN  _split_into_sentences(page.text)

\* the later chunk starts with the last m >= 1 sentences of the earlier one
SharesSentences(S, earlier, later) ==
    \E a1 \in 1..Len(S), b1 \in 1..Len(S) :
        /\ a1 <= b1
        /\ join(SubSeq(S, a1, b1)) = earlier.content
        /\ \E a2 \in 1..Len(S), b2 \in 1..Len(S) :
              /\ a2 <= b2
              /\ join(SubSeq(S, a2, b2)) = later.content
              /\ \E m \in 1..Len(S) :
                    /\ m <= b1 - a1 + 1
                    /\ m <= b2 - a2 + 1
                    /\ SubSeq(S, b1 - m + 1, b1) = SubSeq(S, a2, a2 + m - 1)

\* C2: every chunk longer than chunk_size consists of exactly one sentence
\* (equivalently: a chunk of two or more sentences is at most chunk_size long).
C2_SizeBound ==
    ChunkCallDone =>
        \A i \in 1..Len(call.result) :
            Len(call.result[i].content) > call.chunk_size
                => call.result[i].sentence_count = 1

\* C3: with chunk_overlap > 0, consecutive chunks of one page share at least
\* one sentence: the later one starts with the last sentence(s) of the earlier.
C3_Overlap ==
    (ChunkCallDone /\ call.chunk_overlap > 0) =>
        \A i \in 1..(Len(call.result) - 1) :
            call.result[i].page_number = call.result[i + 1].page_number
                => SharesSentences(PageSentences(call.pages, call.result[i].page_number),
                                   call.result[i], call.result[i + 1])

\* a page gave two chunks with chunk_overlap > 0, the earlier of two sentences
C3_Witness ==
    /\ ChunkCallDone
    /\ call.chunk_overlap > 0
    /\ \E i \in 1..(Len(call.result) - 1) :
          /\ call.result[i].page_number = call.result[i + 1].page_number
          /\ call.result[i].sentence_count >= 2

(***************************************************************************)
(* cosine_similarity_score on its own, applied to bounded vectors.         *)
(***************************************************************************)
Components == {-1000, 0, 1000}
SimVectors == UNION {[1..n -> Components] : n \in 0..MaxDim}

InitSim ==
    /\ IdleGlobals
    /\ \E embedding1 \in SimVectors, embedding2 \in SimVectors :
          call = [op |-> "cosine_similarity_score", status |-> "pending",
                  embedding1 |-> embedding1, embedding2 |-> embedding2]

CosineCall ==
    /\ call.op = "cosine_similarity_score" /\ call.status = "pending"
    /\ call' = [call EXCEPT !.status = "done"] @@
               [result |-> cosine_similarity_score(call.embedding1, call.embedding2)]
    /\ UNCHANGED world

NextSim == CosineCall

SpecSim == InitSim /\ [][NextSim]_vars

CosineCallDone == call.op = "cosine_similarity_score" /\ call.status = "done"
HasNonZero(embedding) == \E i \in 1..Len(embedding) : embedding[i] # 0

\* C6: on two vectors of unequal length cosine_similarity_score returns a
\* value (it never raises), and that value is 0.1 when both vectors have a
\* non-zero component and 0 otherwise.
C6_FallbackScore ==
    (CosineCallDone /\ Len(call.embedding1) # Len(call.embedding2)) =>
        call.result = IF HasNonZero(call.embedding1) /\ HasNonZero(call.embedding2)
                      THEN 100 ELSE 0

\* an empty vector has been scored against a zero vector of length 2
C6_Witness ==
    /\ CosineCallDone
    /\ Len(call.embedding1) = 0
    /\ Len(call.embedding2) = 2
    /\ ~HasNonZero(call.embedding2)
    /\ call.result = 0

(***************************************************************************)
(* search_similar_chunks on its own, applied to bounded tables.            *)
(***************************************************************************)
Docs == {"d1", "d2"}
StoredVectors == {<<1000, 0>>, <<1000, 1000>>, <<0, 0>>, <<1000>>}
QueryVectors == {<<1000, 0>>, <<-1000, 0>>, <<1000>>, <<>>}
Scopes == {None, Some(<<>>), Some(<<"d1">>)}
Thresholds == {-1000, 0, 100}
Limits == {1, 5}

Placeholder == Rep("a", 11)

\* tables whose i-th row has its own chunkId
SearchTables ==
    UNION {
        { [i \in 1..k |->
              [documentId |-> f[i][1], chunkId |-> <<"chunk", i - 1, 0>>,
               chunkIndex |-> i - 1, content |-> Placeholder,
               embedding |-> f[i][2], pageNumber |-> 1]]
          : f \in [1..k -> Docs \X StoredVectors] }
        : k \in 0..MaxRows}

InitSearch ==
    /\ documents = <<>>
    /\ sentence_transformer_model = "None"
    /\ tfidf_vectorizer = [state |-> "None"]
    /\ task = <<>>
    /\ history = <<>>
    /\ document_embeddings \in SearchTables
    /\ \E query_embedding \in QueryVectors, document_ids \in Scopes,
          limit \in Limits, similarity_threshold \in Thresholds :
          call = [op |-> "search_similar_chunks", status |-> "pending",
                  query_embedding |-> query_embedding, document_ids |-> document_ids,
                  limit |-> limit, similarity_threshold |-> similarity_threshold]

SearchCall ==
    /\ call.op = "search_similar_chunks" /\ call.status = "pending"
    /\ \E db_ok \in BOOLEAN :
          call' = [call EXCEPT !.status = "done"] @@
                  [db_ok |-> db_ok,
                   result |-> search_similar_chunks(document_embeddings, db_ok,
                                  call.query_embedding, call.document_ids,
                                  call.limit, call.similarity_threshold)]
    /\ UNCHANGED world

NextSearch == SearchCall

SpecSearch == InitSearch /\ [][NextSearch]_vars

SearchCallDone == call.op = "search_similar_chunks" /\ call.status = "done"

\* where the row of a chunk id stands in the table, the order it is read in
RowPosition(chunk_id) ==
    CHOOSE i \in 1..Len(document_embeddings) : document_embeddings[i].chunkId = chunk_id

\* C4: the hits are in non-increasing order of similarity, and hits of equal
\* similarity are in the order their records were read from storage.
C4_ScoreOrder ==
    SearchCallDone =>
        \A i \in 1..Len(call.result), j \in 1..Len(call.result) :
            i < j =>
                /\ call.result[i].similarity >= call.result[j].similarity
                /\ call.result[i].similarity = call.result[j].similarity
                      => RowPosition(call.result[i].chunk_id)
                             < RowPosition(call.result[j].chunk_id)

\* three hits came back, the first above two of equal similarity
C4_Witness ==
    /\ SearchCallDone
    /\ Len(call.result) = 3
    /\ call.result[1].similarity > call.result[2].similarity
    /\ call.result[2].similarity = call.result[3].similarity

\* C5: no returned hit has a similarity below the threshold of the call,
\* whether it was scored by cosine or by the dimension-mismatch path.
C5_Threshold ==
    SearchCallDone =>
        \A i \in 1..Len(call.result) :
            call.result[i].similarity >= call.similarity_threshold

\* a search at threshold 0.1 returned a degraded hit and left a row out
C5_Witness ==
    /\ SearchCallDone
    /\ call.similarity_threshold = 100
    /\ \E i \in 1..Len(call.result) :
          /\ call.result[i].similarity = 100
          /\ Len(document_embeddings[RowPosition(call.result[i].chunk_id)].embedding)
                 # Len(call.query_embedding)
    /\ Len(call.result) < Len(document_embeddings)
    /\ Len(call.result) < call.limit

\* the fetched rows whose score against the query vector reaches the threshold
PassingRows ==
    LET rows == fetch_rows(document_embeddings, call.document_ids)
    IN  {i \in 1..Len(rows) :
            cosine_similarity_score(call.query_embedding, rows[i].embedding)
                >= call.similarity_threshold}

\* C25: a search whose queries succeeded returns min(limit, number of passing
\* candidates) hits, each a passing candidate with its score, and no passing
\* candidate left out scores strictly higher than a returned hit.
C25_TopLimit ==
    (SearchCallDone /\ call.db_ok) =>
        LET rows == fetch_rows(document_embeddings, call.document_ids)
            score(i) == cosine_similarity_score(call.query_embedding, rows[i].embedding)
            returned_ids == {call.result[k].chunk_id : k \in 1..Len(call.result)}
        IN  /\ Len(call.result) <= call.limit
            /\ Len(call.result) =
                   (IF Cardinality(PassingRows) < call.limit
                    THEN Cardinality(PassingRows) ELSE call.limit)
            /\ \A k \in 1..Len(call.result) :
                   \E i \in PassingRows :
                      /\ rows[i].chunkId = call.result[k].chunk_id
                      /\ score(i) = call.result[k].similarity
            /\ \A i \in PassingRows :
                   rows[i].chunkId \notin returned_ids =>
                       \A k \in 1..Len(call.result) : score(i) <= call.result[k].similarity

\* limit 1 cut off passing candidates, one of them scored lower than the hit
C25_Witness ==
    /\ SearchCallDone /\ call.db_ok
    /\ call.limit = 1
    /\ Len(call.result) = 1
    /\ Cardinality(PassingRows) = 3
    /\ \E i \in PassingRows :
          cosine_similarity_score(
              call.query_embedding,
              fetch_rows(document_embeddings, call.document_ids)[i].embedding)
                  < call.result[1].similarity

\* C7: when a document scope is supplied, every hit belongs to a document of
\* the scope.
C7_ScopeFilter ==
    (SearchCallDone /\ ~call.document_ids.is_none) =>
        \A i \in 1..Len(call.result) :
            call.result[i].document_id \in Elems(call.document_ids.value)


(***************************************************************************)
(* store_embeddings_in_database (vector_search.py): one INSERT .. ON       *)
(* CONFLICT ("chunkId") DO UPDATE per chunk, each statement committed on   *)
(* its own (the connection is acquired from the pool, no transaction).     *)
(***************************************************************************)
new_row(document_id, chunk, embedding) ==
    [documentId |-> document_id, chunkId |-> chunk.chunk_id,
     chunkIndex |-> chunk.chunk_index, content |-> chunk.content,
     embedding |-> embedding, pageNumber |-> chunk.page_number]

has_chunk_id(table, chunk_id) == \E i \in 1..Len(table) : table[i].chunkId = chunk_id

\* the statement with ON CONFLICT ("chunkId") DO NOTHING: the first insert wins
insert_query_do_nothing(table, document_id, chunk, embedding) ==
    IF has_chunk_id(table, chunk.chunk_id) THEN table
    ELSE Append(table, new_row(document_id, chunk, embedding))

\* insert_query: a new row, or content, embedding and pageNumber of the row that
\* holds the chunkId replaced; documentId and chunkIndex of that row stay
insert_query(table, document_id, chunk, embedding) ==
    IF has_chunk_id(table, chunk.chunk_id)
    THEN [i \in 1..Len(table) |->
             IF table[i].chunkId = chunk.chunk_id
             THEN [table[i] EXCEPT !.content = chunk.content,
                                   !.embedding = embedding,
                                   !.pageNumber = chunk.page_number]
             ELSE table[i]]
    ELSE Append(table, new_row(document_id, chunk, embedding))

\* the upsert just executed becomes the last one made of its chunk id
remember(h, document_id, chunk, embedding, space) ==
    [id \in (DOMAIN h) \cup {chunk.chunk_id} |->
        IF id = chunk.chunk_id
        THEN [document_id |-> document_id, content |-> chunk.content,
              embedding |-> embedding, page_number |-> chunk.page_number,
              space |-> space]
        ELSE h[id]]

\* len(chunks) != len(embeddings): ValueError before anything is written
\* the length test left out
length_mismatch_unchecked(chunks, embeddings) == FALSE

length_mismatch(chunks, embeddings) == Len(chunks) # Len(embeddings)

\* the number of pairs of zip(chunks, embeddings)
zip_len(chunks, embeddings) ==
    IF Len(chunks) < Len(embeddings) THEN Len(chunks) ELSE Len(embeddings)

\* a table without the foreign key: any document id can be inserted
fk_violation_unchecked(table, docs, document_id, chunk) == FALSE

\* FOREIGN KEY ("documentId") REFERENCES documents(id): a new row for a
\* document that has no row in documents is refused; the DO UPDATE branch
\* writes no documentId and is not tested
fk_violation(table, docs, document_id, chunk) ==
    /\ ~has_chunk_id(table, chunk.chunk_id)
    /\ docs[document_id].status = "absent"

\* UPDATE documents SET status = .. WHERE id = ..: no row, nothing updated
update_status(docs, document_id, status) ==
    IF docs[document_id].status = "absent" THEN docs
    ELSE [docs EXCEPT ![document_id].status = status]

(***************************************************************************)
(* SpecStore: store_embeddings_in_database called with any chunks and      *)
(* embeddings, one call after the other, each statement able to raise.     *)
(***************************************************************************)
MaxChunks == 2

StoreChunkIds == {<<"chunk", 0, 0>>, <<"chunk", 1, 0>>}
StoreContents == {<<"a">>, <<"b">>}
StoreVectors == {<<1000, 0>>, <<0, 1000>>}
StoreChunks ==
    {[chunk_id |-> id, chunk_index |-> id[2], content |-> c,
      page_number |-> IF c = <<"a">> THEN 1 ELSE 2]
        : id \in StoreChunkIds, c \in StoreContents}
StoreChunkLists == UNION {[1..n -> StoreChunks] : n \in 0..MaxChunks}
StoreEmbeddingLists == UNION {[1..n -> StoreVectors] : n \in 0..MaxChunks}

GivenSpace == [strategy |-> "given", vocabulary |-> <<>>]

InitStore ==
    /\ document_embeddings = <<>>
    /\ documents = [d \in Docs |-> [status |-> "PROCESSING", userId |-> "u1",
                                     stored |-> TRUE, file |-> <<>>]]
    /\ sentence_transformer_model = "None"
    /\ tfidf_vectorizer = [state |-> "None"]
    /\ task = <<>>
    /\ history = <<>>
    /\ call = NoCall

\* what is left of a call that has returned (None) or raised
returned(op, status) == [op |-> op, status |-> status]

\* the call is made: the length test, then the loop is entered
StoreCall ==
    /\ call.status \in {"done", "raised"}
    /\ \E document_id \in Docs, chunks \in StoreChunkLists, embeddings \in StoreEmbeddingLists :
          call' = IF length_mismatch(chunks, embeddings)
                  THEN [op |-> "store_embeddings_in_database", status |-> "raised",
                        error |-> "ValueError"]
                  ELSE IF zip_len(chunks, embeddings) = 0
                  THEN returned("store_embeddings_in_database", "done")
                  ELSE [op |-> "store_embeddings_in_database", status |-> "storing",
                        document_id |-> document_id, chunks |-> chunks,
                        embeddings |-> embeddings, i |-> 0, replaced |-> FALSE]
    /\ UNCHANGED world

\* one pass of the loop: conn.execute(insert_query, ..) of the next pair, or
\* the statement raises and the call with it
StoreRecord ==
    /\ call.op = "store_embeddings_in_database"
    /\ call.status = "storing"
    /\ \E ok \in BOOLEAN :
          LET chunk == call.chunks[call.i + 1]
              embedding == call.embeddings[call.i + 1]
          IN  IF ok /\ ~fk_violation(document_embeddings, documents, call.document_id, chunk)
              THEN /\ document_embeddings' =
                          insert_query(document_embeddings, call.document_id, chunk, embedding)
                   /\ history' = remember(history, call.document_id, chunk, embedding, GivenSpace)
                   /\ call' = IF call.i + 1 = zip_len(call.chunks, call.embeddings)
                              THEN returned("store_embeddings_in_database", "done")
                              ELSE [call EXCEPT
                                      !.i = @ + 1,
                                      !.replaced = has_chunk_id(document_embeddings,
                                                                chunk.chunk_id)]
              ELSE /\ call' = returned("store_embeddings_in_database", "raised")
                   /\ UNCHANGED <<document_embeddings, history>>
    /\ UNCHANGED <<documents, sentence_transformer_model, tfidf_vectorizer, task>>

NextStore == StoreCall \/ StoreRecord

SpecStore == InitStore /\ [][NextStore]_vars

\* C9: after any sequence of upserts the table holds at most one record per
\* chunk id, that record carries the content, vector and page number of the
\* most recent upsert of the chunk id, and applying an upsert a second time
\* changes nothing
C9_Upsert ==
    /\ \A i, j \in 1..Len(document_embeddings) :
          document_embeddings[i].chunkId = document_embeddings[j].chunkId => i = j
    /\ \A id \in DOMAIN history : has_chunk_id(document_embeddings, id)
    /\ \A i \in 1..Len(document_embeddings) :
          LET row == document_embeddings[i]
          IN  /\ row.chunkId \in DOMAIN history
              /\ row.content = history[row.chunkId].content
              /\ row.embedding = history[row.chunkId].embedding
              /\ row.pageNumber = history[row.chunkId].page_number
    /\ \A document_id \in Docs, chunk \in StoreChunks, embedding \in StoreVectors :
          LET once == insert_query(document_embeddings, document_id, chunk, embedding)
          IN  insert_query(once, document_id, chunk, embedding) = once

\* an upsert has just replaced the record of its chunk id with other content
C9_Witness ==
    /\ call.op = "store_embeddings_in_database"
    /\ call.status = "storing"
    /\ call.i > 0
    /\ call.replaced
    /\ \E i \in 1..Len(document_embeddings) :
          /\ document_embeddings[i].chunkId = call.chunks[call.i].chunk_id
          /\ document_embeddings[i].content = call.chunks[call.i].content
          /\ document_embeddings[i].documentId # call.document_id
    /\ Len(document_embeddings) = Cardinality(StoreChunkIds)

\* C23: a call whose chunk list and vector list differ in length never
\* enters the loop that writes, and a record is written only inside that loop:
\* the call raises with the index as it was.
C23_MismatchRejected ==
    [][/\ (call'.status = "storing" /\ call.status # "storing")
            => Len(call'.chunks) = Len(call'.embeddings)
       /\ document_embeddings' # document_embeddings
            => /\ call.op = "store_embeddings_in_database"
               /\ call.status = "storing"
               /\ Len(call.chunks) = Len(call.embeddings)]_vars

\* a call with lists of different length raised over an index that holds rows
C23_Witness ==
    /\ call.op = "store_embeddings_in_database"
    /\ call.status = "raised"
    /\ "error" \in DOMAIN call
    /\ call.error = "ValueError"
    /\ document_embeddings # <<>>


(***************************************************************************)
(* Spec: process_document_background (api/documents.py), one task per      *)
(* uploaded document.  A step runs from one await that can suspend to the  *)
(* next; the tasks and the loading of the model interleave at these points.*)
(***************************************************************************)
settings_chunk_size == 1000
settings_chunk_overlap == 100
chat_limit == 5
chat_similarity_threshold == 10

\* how often process_document_background runs in all
MaxRuns == 2

\* what extract_pdf_text returns for the files in storage
Page(page_number, text) == [page_number |-> page_number, text |-> text]
FileOnePage == <<Page(1, Rep("a", 11) \o <<".">>)>>
FileTwoPages == <<Page(1, Rep("b", 11) \o <<".">>), Page(2, Rep("c", 11) \o <<".">>)>>
file_of(d) == IF d = "d1" THEN FileTwoPages ELSE FileOnePage

\* the users, and the owner of each document
Users == {"u1", "u2"}
user_of(d) == IF d = "d1" THEN "u1" ELSE "u2"

Messages == {Rep("a", 11), Rep("c", 11)}
NoDocument == ""

NoTask ==
    [pc |-> "none", runs |-> 0, completed |-> 0, chunks |-> <<>>, embeddings |-> <<>>,
     space |-> NoSpace, i |-> 0, outcome |-> "none", store_failed |-> FALSE, first |-> <<>>]

RECURSIVE total_runs(_, _)
total_runs(t, docs) ==
    IF docs = {} THEN 0
    ELSE LET d == CHOOSE x \in docs : TRUE
         IN  t[d].runs + total_runs(t, docs \ {d})

\* upload_document has inserted the documents of `uploaded` with status
\* PROCESSING and created their tasks; the model is not loaded yet
AfterUpload(uploaded) ==
    /\ document_embeddings = <<>>
    /\ documents = [d \in Docs |->
                      [status |-> IF d \in uploaded THEN "PROCESSING" ELSE "absent",
                       userId |-> user_of(d), stored |-> d \in uploaded,
                       file |-> file_of(d)]]
    /\ task = [d \in Docs |->
                  IF d \in uploaded
                  THEN [NoTask EXCEPT !.pc = "scheduled", !.runs = 1]
                  ELSE NoTask]
    /\ sentence_transformer_model = "None"
    /\ tfidf_vectorizer = [state |-> "None"]
    /\ history = <<>>
    /\ call = NoCall

Init ==
    \E uploaded \in (SUBSET Docs) \ {{}} :
        Cardinality(uploaded) <= MaxRuns /\ AfterUpload(uploaded)

\* load_embedding_model in the background task of the startup
LoadModel ==
    /\ sentence_transformer_model = "None"
    /\ sentence_transformer_model' = "loaded"
    /\ UNCHANGED <<document_embeddings, documents, tfidf_vectorizer, task, call, history>>

\* process_document_background is run again for a document whose task has ended
Reingest(d) ==
    /\ task[d].pc = "ended"
    /\ total_runs(task, Docs) < MaxRuns
    /\ task' = [task EXCEPT ![d] = [@ EXCEPT !.pc = "scheduled", !.runs = @ + 1,
                                              !.chunks = <<>>, !.embeddings = <<>>,
                                              !.space = NoSpace, !.i = 0]]
    /\ UNCHANGED <<document_embeddings, documents, sentence_transformer_model,
                   tfidf_vectorizer, call, history>>

\* as many uuid draws as chunk_text makes on the pages
count_chunks(pages) ==
    Len(chunk_text(pages, settings_chunk_size, settings_chunk_overlap,
                   [k \in 1..(Len(pages) * 2) |-> 0]))

contents_of(chunks) == [k \in 1..Len(chunks) |-> chunks[k].content]

\* process_document_file with its two emptiness tests left out
no_content_unchecked(pages, chunks) == FALSE

\* process_document_file: "No text content found in PDF" for no page,
\* "Failed to create chunks from document" for no chunk
no_content(pages, chunks) == pages = <<>> \/ chunks = <<>>

\* steps 1 to 3: the download, process_document_file (extraction, chunk_text),
\* generate_embeddings and the length test of store_embeddings_in_database
BgProcess(d) ==
    /\ task[d].pc = "scheduled"
    /\ \E extracted \in BOOLEAN :
          IF ~extracted \/ ~documents[d].stored
          THEN /\ task' = [task EXCEPT ![d].pc = "failing"]
               /\ UNCHANGED tfidf_vectorizer
          ELSE \E encode_ok \in BOOLEAN, basic_ok \in BOOLEAN,
                  uuids \in [1..count_chunks(documents[d].file) -> Uuids] :
               \E chunks \in {chunk_text(documents[d].file, settings_chunk_size,
                                         settings_chunk_overlap, uuids)} :
               \E generated \in {generate_embeddings(contents_of(chunks),
                                                     sentence_transformer_model,
                                                     tfidf_vectorizer, encode_ok, basic_ok)} :
                  IF no_content(documents[d].file, chunks)
                  THEN /\ task' = [task EXCEPT ![d].pc = "failing"]
                       /\ UNCHANGED tfidf_vectorizer
                  ELSE /\ tfidf_vectorizer' = generated.vectorizer
                       /\ task' = [task EXCEPT ![d] =
                              [@ EXCEPT !.pc = IF generated.raised
                                                  \/ length_mismatch(chunks,
                                                                     generated.embeddings)
                                               THEN "failing"
                                               ELSE IF zip_len(chunks,
                                                               generated.embeddings) = 0
                                               THEN "complete" ELSE "store",
                                        !.chunks = chunks,
                                        !.embeddings = generated.embeddings,
                                        !.space = generated.space,
                                        !.i = 0]]
    /\ UNCHANGED <<document_embeddings, documents, sentence_transformer_model, call, history>>

\* step 4: one statement of the loop of store_embeddings_in_database, or it raises
BgStore(d) ==
    /\ task[d].pc = "store"
    /\ \E ok \in BOOLEAN :
          LET chunk == task[d].chunks[task[d].i + 1]
              embedding == task[d].embeddings[task[d].i + 1]
          IN  IF ok /\ ~fk_violation(document_embeddings, documents, d, chunk)
              THEN /\ document_embeddings' = insert_query(document_embeddings, d, chunk, embedding)
                   /\ history' = remember(history, d, chunk, embedding, task[d].space)
                   /\ task' = [task EXCEPT ![d] =
                          [@ EXCEPT !.i = @ + 1,
                                    !.pc = IF task[d].i + 1 = Len(task[d].chunks)
                                           THEN "complete" ELSE "store"]]
              ELSE /\ task' = [task EXCEPT ![d] = [@ EXCEPT !.pc = "failing",
                                                            !.store_failed = TRUE]]
                   /\ UNCHANGED <<document_embeddings, history>>
    /\ UNCHANGED <<documents, sentence_transformer_model, tfidf_vectorizer, call>>

\* step 5: UPDATE documents SET status = 'COMPLETED', or the statement raises
BgComplete(d) ==
    /\ task[d].pc = "complete"
    /\ \E ok \in BOOLEAN :
          IF ok
          THEN /\ documents' = update_status(documents, d, "COMPLETED")
               /\ task' = [task EXCEPT ![d] =
                      [@ EXCEPT !.pc = "ended",
                                !.outcome = "completed",
                                !.completed = @ + 1,
                                !.first = IF task[d].completed = 0
                                          THEN [k \in 1..Len(task[d].chunks) |->
                                                   [chunk_id |-> task[d].chunks[k].chunk_id,
                                                    content |-> task[d].chunks[k].content,
                                                    embedding |-> task[d].embeddings[k]]]
                                          ELSE @]]
          ELSE /\ task' = [task EXCEPT ![d].pc = "failing"]
               /\ UNCHANGED documents
    /\ UNCHANGED <<document_embeddings, sentence_transformer_model, tfidf_vectorizer,
                   call, history>>

\* the outer except: UPDATE documents SET status = 'FAILED'; when that raises
\* too the status stays as it was
BgFail(d) ==
    /\ task[d].pc = "failing"
    /\ \E ok \in BOOLEAN :
          documents' = IF ok THEN update_status(documents, d, "FAILED") ELSE documents
    /\ task' = [task EXCEPT ![d] = [@ EXCEPT !.pc = "ended", !.outcome = "failed"]]
    /\ UNCHANGED <<document_embeddings, sentence_transformer_model, tfidf_vectorizer,
                   call, history>>

\* the ingestion of the uploaded documents, each run again at will
Next ==
    \/ LoadModel
    \/ \E d \in Docs : Reingest(d)
    \/ \E d \in Docs : BgProcess(d)
    \/ \E d \in Docs : BgStore(d)
    \/ \E d \in Docs : BgComplete(d)
    \/ \E d \in Docs : BgFail(d)

Spec == Init /\ [][Next]_vars

rows_of(d) == filter_rows(document_embeddings, {d})

\* the status turns COMPLETED only in the step after the last write of a run
\* that wrote every chunk with its vector
CompletedAfterLastWrite ==
    [][\A d \in Docs :
          (documents'[d].status = "COMPLETED" /\ documents[d].status # "COMPLETED") =>
              /\ task[d].pc = "complete"
              /\ task[d].chunks # <<>>
              /\ Len(task[d].embeddings) = Len(task[d].chunks)
              /\ task[d].i = Len(task[d].chunks)]_vars

\* C28: the status turns COMPLETED only in a run whose every chunk was written
\* with its vector, and a run that failed leaves the status FAILED.
C28_CompletedOnlyStored ==
    /\ CompletedAfterLastWrite
    /\ [](\A d \in Docs :
             (task[d].pc = "ended" /\ task[d].outcome = "failed") =>
                 documents[d].status = "FAILED")

\* C1: a document ingested twice has exactly the chunks of one ingestion: the
\* second run made the chunk ids, contents and vectors of the first, and the
\* document has as many records as chunks
C1_Idempotent ==
    \A d \in Docs :
        (task[d].pc = "ended" /\ task[d].outcome = "completed" /\ task[d].completed >= 2
            /\ ~task[d].store_failed) =>
            /\ Len(task[d].chunks) = Len(task[d].first)
            /\ \A k \in 1..Len(task[d].chunks) :
                  /\ task[d].chunks[k].chunk_id = task[d].first[k].chunk_id
                  /\ task[d].chunks[k].content = task[d].first[k].content
                  /\ task[d].embeddings[k] = task[d].first[k].embedding
            /\ Len(rows_of(d)) = Len(task[d].chunks)

\* C10: when storing failed after some records were written and the ingestion
\* was then retried to success, the document has exactly one record per chunk
\* of its final chunk set
C10_RetryConverges ==
    \A d \in Docs :
        (task[d].pc = "ended" /\ task[d].outcome = "completed" /\ task[d].store_failed) =>
            /\ Len(rows_of(d)) = Len(task[d].chunks)
            /\ \A k \in 1..Len(task[d].chunks) :
                  has_chunk_id(rows_of(d), task[d].chunks[k].chunk_id)

(***************************************************************************)
(* SpecChat: one chat request is answered while the uploaded documents     *)
(* are ingested, each once.                                                *)
(***************************************************************************)
InitChat == \E uploaded \in (SUBSET Docs) \ {{}} : AfterUpload(uploaded)

\* process_chat_message up to the return of generate_query_embedding; one
\* request is followed
ChatEmbed ==
    /\ call = NoCall
    /\ \E message \in Messages, document_id \in Docs \cup {NoDocument}, db_ok \in BOOLEAN :
       \E query \in {generate_query_embedding(document_embeddings, db_ok, message)} :
          call' = [op |-> "process_chat_message", status |-> "embedded",
                   message |-> message, document_id |-> document_id,
                   query_embedding |-> query.embedding, query_space |-> query.space]
    /\ UNCHANGED world

\* [document_id] if document_id else None
chat_scope(document_id) == IF document_id # NoDocument THEN Some(<<document_id>>) ELSE None

\* process_chat_message from the call of search_similar_chunks on; scored: the
\* rows the query vector was scored against
ChatSearch ==
    /\ call.op = "process_chat_message"
    /\ call.status = "embedded"
    /\ \E db_ok \in BOOLEAN :
          LET document_ids == chat_scope(call.document_id)
              rows == IF db_ok THEN fetch_rows(document_embeddings, document_ids) ELSE <<>>
          IN  call' = [op |-> "process_chat_message", status |-> "done",
                       message |-> call.message, document_id |-> call.document_id,
                       query_embedding |-> call.query_embedding,
                       query_space |-> call.query_space,
                       scored |-> [k \in 1..Len(rows) |->
                                      [chunk_id |-> rows[k].chunkId,
                                       embedding |-> rows[k].embedding,
                                       space |-> history[rows[k].chunkId].space]],
                       similar_chunks |->
                           search_similar_chunks(document_embeddings, db_ok,
                                                 call.query_embedding, document_ids,
                                                 chat_limit, chat_similarity_threshold)]
    /\ UNCHANGED world

NextChat ==
    \/ LoadModel
    \/ \E d \in Docs : BgProcess(d)
    \/ \E d \in Docs : BgStore(d)
    \/ \E d \in Docs : BgComplete(d)
    \/ \E d \in Docs : BgFail(d)
    \/ ChatEmbed
    \/ ChatSearch

SpecChat == InitChat /\ [][NextChat]_vars

\* the strategy and the fitted vocabulary of two vectors are the same
same_space(a, b) == a.strategy = b.strategy /\ a.vocabulary = b.vocabulary

\* C8: in every answer call the query vector lies in the embedding space
\* (strategy, fitted vocabulary) of every stored vector it is scored against
C8_SameSpace ==
    (call.op = "process_chat_message" /\ call.status = "done"
        /\ call.query_embedding # <<>>) =>
        \A k \in 1..Len(call.scored) : same_space(call.query_space, call.scored[k].space)

\* create_chat_session: document_ids = [document_id] if document_id else [];
\* send_message hands the first element, or None, to process_chat_message
session_document_ids(document_id) ==
    IF document_id # NoDocument THEN <<document_id>> ELSE <<>>

\* C30: every chunk found for a message of a chat session is of a document in
\* the session's documentIds; a session without a document gets none.
C30_SessionScope ==
    (call.op = "process_chat_message" /\ call.status = "done") =>
        \A k \in 1..Len(call.similar_chunks) :
            call.similar_chunks[k].document_id \in Elems(session_document_ids(call.document_id))

\* C21: a stored vector from another embedding space than the query vector's
\* is scored with the degraded score of _fallback_similarity, never a cosine.
C21_SpaceChecked ==
    (call.op = "process_chat_message" /\ call.status = "done"
        /\ call.query_embedding # <<>>) =>
        \A k \in 1..Len(call.scored) :
            ~same_space(call.query_space, call.scored[k].space) =>
                cosine_similarity_score(call.query_embedding, call.scored[k].embedding)
                    = _fallback_similarity(call.query_embedding, call.scored[k].embedding)


(***************************************************************************)
(* SpecDelete: delete_document (api/documents.py) requests, one after the  *)
(* other, while the uploaded documents are ingested; the dense model has   *)
(* not finished loading.                                                   *)
(***************************************************************************)
\* delete_document_embeddings calls db_manager.execute_query, a method the
\* DatabaseManager does not have: the call raises and deletes nothing
delete_document_embeddings(table, document_id) == [raised |-> TRUE, table |-> table]

RECURSIVE without_rows_of(_, _)
without_rows_of(table, document_id) ==
    IF table = <<>> THEN <<>>
    ELSE IF Head(table).documentId = document_id
         THEN without_rows_of(Tail(table), document_id)
         ELSE <<Head(table)>> \o without_rows_of(Tail(table), document_id)

\* the request arrives: SELECT filename FROM documents WHERE id AND "userId";
\* no row is HTTP 404, a database error HTTP 500
DeleteFetch ==
    /\ call.status \in {"done", "raised"}
    /\ \E document_id \in Docs, user_id \in Users, db_ok \in BOOLEAN :
          call' = IF ~db_ok
                  THEN returned("delete_document", "raised")
                  ELSE IF documents[document_id].status = "absent"
                          \/ documents[document_id].userId # user_id
                  THEN returned("delete_document", "raised")
                  ELSE [op |-> "delete_document", status |-> "found",
                        document_id |-> document_id, user_id |-> user_id]
    /\ UNCHANGED world

\* delete_document_embeddings, delete_chat_sessions_for_document and the
\* delete of the file in storage: each may raise, none ends the request
DeleteCleanup ==
    /\ call.op = "delete_document"
    /\ call.status = "found"
    /\ \E storage_ok \in BOOLEAN :
          /\ document_embeddings' =
                 delete_document_embeddings(document_embeddings, call.document_id).table
          /\ documents' = [documents EXCEPT ![call.document_id].stored = @ /\ ~storage_ok]
    /\ call' = [call EXCEPT !.status = "cleaned"]
    /\ UNCHANGED <<sentence_transformer_model, tfidf_vectorizer, task, history>>

\* DELETE FROM documents WHERE id AND "userId": the rows of the document in
\* document_embeddings go with it (ON DELETE CASCADE), or the statement raises
DeleteRow ==
    /\ call.op = "delete_document"
    /\ call.status = "cleaned"
    /\ \E db_ok \in BOOLEAN :
          IF db_ok
          THEN /\ documents' = [documents EXCEPT ![call.document_id].status = "absent"]
               /\ document_embeddings' = without_rows_of(document_embeddings, call.document_id)
               /\ call' = [call EXCEPT !.status = "done"]
          ELSE /\ call' = returned("delete_document", "raised")
               /\ UNCHANGED <<documents, document_embeddings>>
    /\ UNCHANGED <<sentence_transformer_model, tfidf_vectorizer, task, history>>

NextDelete ==
    \/ \E d \in Docs : BgProcess(d)
    \/ \E d \in Docs : BgStore(d)
    \/ \E d \in Docs : BgComplete(d)
    \/ \E d \in Docs : BgFail(d)
    \/ DeleteFetch
    \/ DeleteCleanup
    \/ DeleteRow

SpecDelete == InitChat /\ [][NextDelete]_vars

\* C11: once the deletion of a document has completed, the table holds no
\* record of that document, whatever its ingestion was doing and does next
C11_DeletedWholesale ==
    \A d \in Docs : documents[d].status = "absent" => rows_of(d) = <<>>

\* the deletion completed while the ingestion of the document had stored its
\* first chunk and was about to store the second
C11_Witness ==
    /\ call.op = "delete_document"
    /\ call.status = "done"
    /\ task[call.document_id].pc = "store"
    /\ task[call.document_id].i = 1
    /\ documents[call.document_id].status = "absent"


(***************************************************************************)
(* SpecAnswer: one chat request followed to its return value, while one    *)
(* uploaded document is ingested.                                          *)
(***************************************************************************)
citation(chunk) ==
    [chunk_id |-> chunk.chunk_id, page_number |-> chunk.page_number,
     similarity |-> chunk.similarity]

\* generate_response (llm_service.py): no context, no call of the LLM;
\* llm_ok = FALSE: call_llm raises
generate_response(query, context_chunks, llm_ok) ==
    IF context_chunks = <<>>
    THEN [raised |-> FALSE, citations |-> <<>>, has_context |-> FALSE]
    ELSE IF ~llm_ok
    THEN [raised |-> TRUE, citations |-> <<>>, has_context |-> FALSE]
    ELSE [raised |-> FALSE,
          citations |-> [k \in 1..Len(context_chunks) |-> citation(context_chunks[k])],
          has_context |-> TRUE]

\* process_chat_message after the search: generate_response, save_chat_message
\* and the return value; the except branch answers any exception raised
ChatRespond ==
    /\ call.op = "process_chat_message"
    /\ call.status = "done"
    /\ \E llm_ok \in BOOLEAN, save_ok \in BOOLEAN :
       \E response_data \in {generate_response(call.message, call.similar_chunks, llm_ok)} :
          call' = [call EXCEPT !.status = "returned"] @@
                  (IF response_data.raised \/ ~save_ok
                   THEN [citations |-> <<>>, has_context |-> FALSE, chunks_found |-> 0]
                   ELSE [citations |-> response_data.citations,
                         has_context |-> response_data.has_context,
                         chunks_found |-> Len(call.similar_chunks)])
    /\ UNCHANGED world

InitAnswer == \E d \in Docs : AfterUpload({d})

NextAnswer ==
    \/ LoadModel
    \/ \E d \in Docs : BgProcess(d)
    \/ \E d \in Docs : BgStore(d)
    \/ \E d \in Docs : BgComplete(d)
    \/ \E d \in Docs : BgFail(d)
    \/ ChatEmbed
    \/ ChatSearch
    \/ ChatRespond

SpecAnswer == InitAnswer /\ [][NextAnswer]_vars

\* C12: an answer has has_context true exactly when its search returned a
\* hit; against an empty table it has no hit and has_context false
C12_HasContext ==
    (call.op = "process_chat_message" /\ call.status = "returned") =>
        /\ call.has_context <=> call.similar_chunks # <<>>
        /\ call.scored = <<>> => (call.similar_chunks = <<>> /\ ~call.has_context)


----------------------------------------------------------------------------
\* generate_embeddings called batch after batch in one process

MaxBatch == 2

\* two texts of one term each and one of one-letter words, which the TF-IDF
\* token pattern drops
EmbedTexts == {Rep("a", 11), Rep("b", 11), <<"a", " ", "b">>}
EmbedBatches == UNION {[1..n -> EmbedTexts] : n \in 0..MaxBatch}

InitEmbed ==
    /\ IdleGlobals
    /\ call = NoCall

EmbedCall ==
    \E texts \in EmbedBatches, encode_ok \in BOOLEAN, basic_ok \in BOOLEAN :
    \E result \in {generate_embeddings(texts, sentence_transformer_model, tfidf_vectorizer,
                                       encode_ok, basic_ok)} :
       /\ tfidf_vectorizer' = result.vectorizer
       /\ call' = [op |-> "generate_embeddings",
                   status |-> IF result.raised THEN "raised" ELSE "done",
                   texts |-> texts, model |-> sentence_transformer_model,
                   vectorizer |-> tfidf_vectorizer, encode_ok |-> encode_ok,
                   basic_ok |-> basic_ok, result |-> result]
       /\ UNCHANGED <<document_embeddings, documents, sentence_transformer_model, task, history>>

NextEmbed == LoadModel \/ EmbedCall

SpecEmbed == InitEmbed /\ [][NextEmbed]_vars

EmbedCallOver == call.op = "generate_embeddings" /\ call.texts # <<>>

\* what each strategy does with the call's batch, taken alone
dense_alone == [i \in 1..Len(call.texts) |-> encode(call.texts[i])]
dense_failed == call.model = "None" \/ ~call.encode_ok
sparse_alone == _generate_tfidf_embeddings(call.vectorizer, call.texts)
basic_alone == _generate_basic_embeddings(call.texts)

\* C13: the strategies are entered in the order dense, TF-IDF, basic, each only
\* when every earlier one was unavailable or raised, and the call returns what
\* the first strategy that did not raise returned, without raising.
C13_StrategyOrder ==
    EmbedCallOver =>
        LET result == call.result
        IN  /\ result.attempts =
                   (IF call.model # "None" THEN <<"sentence_transformer">> ELSE <<>>)
                \o (IF dense_failed THEN <<"tfidf">> ELSE <<>>)
                \o (IF dense_failed /\ sparse_alone.raised THEN <<"basic">> ELSE <<>>)
            /\ ~dense_failed =>
                   ~result.raised /\ result.embeddings = dense_alone
            /\ (dense_failed /\ ~sparse_alone.raised) =>
                   ~result.raised /\ result.embeddings = sparse_alone.embeddings
            /\ (dense_failed /\ sparse_alone.raised /\ call.basic_ok) =>
                   ~result.raised /\ result.embeddings = basic_alone

\* the encoder raised, TF-IDF raised as well, and the basic vectors came back
C13_Witness ==
    /\ EmbedCallOver
    /\ call.model # "None" /\ ~call.encode_ok
    /\ call.result.attempts = <<"sentence_transformer", "tfidf", "basic">>
    /\ call.status = "done"
    /\ call.result.embeddings = basic_alone

\* C14: when every strategy raises on a batch that is not empty, the call
\* returns the empty list and does not raise.
C14_AllFailEmpty ==
    (EmbedCallOver /\ dense_failed /\ sparse_alone.raised /\ ~call.basic_ok) =>
        call.status = "done" /\ call.result.embeddings = <<>>

\* C20: the TF-IDF vectors of a call are over the vocabulary and weights of a
\* vectorizer fitted on that call's texts.
C20_FittedOnBatch ==
    (EmbedCallOver /\ call.status = "done" /\ call.result.space.strategy = "tfidf") =>
        call.result.space = tfidf_space(fit(call.texts))


----------------------------------------------------------------------------
\* chat requests in flight together over an index no ingestion is writing to

MaxRequests == 2
Requests == 1..MaxRequests

\* the index and the module-level vectorizer after an ingestion of d that
\* nothing interrupted
ingested(before, d, model) ==
    LET chunks == chunk_text(file_of(d), settings_chunk_size, settings_chunk_overlap,
                             [k \in 1..count_chunks(file_of(d)) |-> 0])
        generated == generate_embeddings(contents_of(chunks), model, before.vectorizer,
                                         TRUE, TRUE)
    IN  [rows |-> before.rows \o
                  [i \in 1..Len(chunks) |-> new_row(d, chunks[i], generated.embeddings[i])],
         vectorizer |-> generated.vectorizer]

NothingIngested == [rows |-> <<>>, vectorizer |-> [state |-> "None"]]

\* a process that ingested none, one or both of the documents
Ingestions(model) ==
    {NothingIngested} \cup
    {ingested(NothingIngested, d, model) : d \in Docs} \cup
    {ingested(ingested(NothingIngested, "d1", model), "d2", model)}

InitSearches ==
    /\ documents = <<>>
    /\ task = <<>>
    /\ history = <<>>
    /\ sentence_transformer_model \in {"None", "loaded"}
    /\ \E before \in Ingestions(sentence_transformer_model) :
          /\ document_embeddings = before.rows
          /\ tfidf_vectorizer = before.vectorizer
    /\ call = [r \in Requests |-> NoCall]

\* generate_query_embedding declares the module-level vectorizer global and
\* binds the one it fits to a local name
vectorizer_after_query_rebound(vectorizer, query) ==
    IF query.space = NoSpace THEN vectorizer
    ELSE [state |-> "fitted", vocabulary |-> query.space.vocabulary, idf |-> query.space.idf]

vectorizer_after_query(vectorizer, query) == vectorizer

\* process_chat_message of request r up to the await of generate_query_embedding
SearchEmbed(r) ==
    /\ call[r] = NoCall
    /\ \E message \in Messages, document_id \in Docs \cup {NoDocument}, db_ok \in BOOLEAN :
       \E query \in {generate_query_embedding(document_embeddings, db_ok, message)} :
          /\ call' = [call EXCEPT ![r] =
                         [op |-> "process_chat_message", status |-> "embedded",
                          message |-> message, document_id |-> document_id,
                          embed_db_ok |-> db_ok, query_embedding |-> query.embedding]]
          /\ tfidf_vectorizer' = vectorizer_after_query(tfidf_vectorizer, query)
    /\ UNCHANGED <<document_embeddings, documents, sentence_transformer_model, task, history>>

\* request r from the call of search_similar_chunks on
SearchRank(r) ==
    /\ call[r].op = "process_chat_message"
    /\ call[r].status = "embedded"
    /\ \E db_ok \in BOOLEAN :
          call' = [call EXCEPT ![r] =
                      [op |-> "process_chat_message", status |-> "done",
                       message |-> call[r].message, document_id |-> call[r].document_id,
                       embed_db_ok |-> call[r].embed_db_ok, search_db_ok |-> db_ok,
                       query_embedding |-> call[r].query_embedding,
                       similar_chunks |->
                           search_similar_chunks(document_embeddings, db_ok,
                                                 call[r].query_embedding,
                                                 chat_scope(call[r].document_id),
                                                 chat_limit, chat_similarity_threshold)]]
    /\ UNCHANGED world

NextSearches ==
    \/ \E r \in Requests : SearchEmbed(r)
    \/ \E r \in Requests : SearchRank(r)

SpecSearches == InitSearches /\ [][NextSearches]_vars

SearchOver(r) == call[r].op = "process_chat_message" /\ call[r].status = "done"

\* the hits of request r's search run by itself on the index as it is now
hits_alone(r) ==
    search_similar_chunks(document_embeddings, call[r].search_db_ok,
        generate_query_embedding(document_embeddings, call[r].embed_db_ok,
                                 call[r].message).embedding,
        chat_scope(call[r].document_id), chat_limit, chat_similarity_threshold)

\* C15: no step of a search changes a stored row, the loaded model or the
\* module-level vectorizer, and however the steps of the searches interleave
\* every finished search has the hits it has when run by itself on the index.
C15_ReadOnlySearch ==
    /\ [][UNCHANGED <<document_embeddings, sentence_transformer_model,
                      tfidf_vectorizer>>]_vars
    /\ [](\A r \in Requests :
             SearchOver(r) => call[r].similar_chunks = hits_alone(r))

\* C22: the query vector is the one of a vectorizer fitted on the contents of
\* the rows in the request's document scope plus the query.
C22_ScopedCorpus ==
    \A r \in Requests :
        (call[r].op = "process_chat_message" /\ call[r].embed_db_ok) =>
            call[r].query_embedding =
                generate_query_embedding(
                    fetch_rows(document_embeddings, chat_scope(call[r].document_id)),
                    TRUE, call[r].message).embedding

\* a search that found a chunk finished between the two steps of another one
C15_Witness ==
    \E r \in Requests, q \in Requests :
        /\ r # q
        /\ SearchOver(r) /\ call[r].similar_chunks # <<>>
        /\ call[q].status = "embedded" /\ call[q].query_embedding # <<>>
        /\ call[q].message # call[r].message
        /\ tfidf_vectorizer.state = "fitted"


----------------------------------------------------------------------------
\* chunk_text and the pages (SpecChunk)

PageNumbers(pages) == {pages[i].page_number : i \in 1..Len(pages)}

\* chunk i is the first one of its page
FirstOfPage(chunks, i) == i = 1 \/ chunks[i - 1].page_number # chunks[i].page_number

\* C16: every chunk is a run of consecutive sentences of the one page whose
\* number it records, and the first chunk of a page starts with that page's
\* first sentence: nothing of the page before is carried into it.
C16_OnePage ==
    ChunkCallDone =>
        \A i \in 1..Len(call.result) :
            LET chunk == call.result[i]
            IN  /\ chunk.page_number \in PageNumbers(call.pages)
                /\ LET S == PageSentences(call.pages, chunk.page_number)
                   IN  \E a \in 1..Len(S), b \in 1..Len(S) :
                          /\ a <= b
                          /\ join(SubSeq(S, a, b)) = chunk.content
                          /\ chunk.sentence_count = b - a + 1
                          /\ FirstOfPage(call.result, i) => a = 1

\* page 1 ended in an overlap window of another sentence than the one page 2
\* starts with
C16_Witness ==
    /\ ChunkCallDone
    /\ call.chunk_overlap > 0
    /\ Len(call.pages) = 2
    /\ \E i \in 2..(Len(call.result) - 1) :
          /\ call.result[i - 1].page_number = 1
          /\ call.result[i].page_number = 1
          /\ call.result[i + 1].page_number = 2
          /\ call.result[i + 1].content[1] # call.result[i].content[1]

\* chunk is sentences a..b of S joined in order
IsRun(chunk, S, a, b) ==
    /\ a <= b
    /\ join(SubSeq(S, a, b)) = chunk.content
    /\ chunk.sentence_count = b - a + 1

\* C27: on every page each retained sentence lies in some chunk of the page,
\* and each chunk is a run of consecutive sentences of its page, joined in
\* order, of sentence_count sentences.
C27_NothingLost ==
    ChunkCallDone =>
        \A p \in 1..Len(call.pages) :
            LET S == _split_into_sentences(call.pages[p].text)
                on_page == {i \in 1..Len(call.result) :
                               call.result[i].page_number = call.pages[p].page_number}
            IN  /\ \A i \in on_page :
                       \E a \in 1..Len(S), b \in 1..Len(S) : IsRun(call.result[i], S, a, b)
                /\ \A j \in 1..Len(S) :
                       \E i \in on_page, a \in 1..j, b \in j..Len(S) :
                           IsRun(call.result[i], S, a, b)

\* a page of three different-looking sentences came out in three chunks, the
\* later ones starting with the sentence before
C27_Witness ==
    /\ ChunkCallDone
    /\ Len(call.pages) = 1
    /\ call.chunk_overlap > 0
    /\ Len(_split_into_sentences(call.pages[1].text)) = 3
    /\ Len(call.result) = 3
    /\ call.result[3].sentence_count = 2
    /\ call.result[1].content # call.result[3].content

\* the sentences of every page that are longer than chunk_size
Oversized(pages, chunk_size) ==
    {s \in UNION {Elems(_split_into_sentences(pages[i].text)) : i \in 1..Len(pages)} :
        Len(s) > chunk_size}

\* C17: a sentence longer than chunk_size is the whole content of some chunk.
C17_OversizedAlone ==
    ChunkCallDone =>
        \A s \in Oversized(call.pages, call.chunk_size) :
            \E i \in 1..Len(call.result) : call.result[i].content = s

----------------------------------------------------------------------------
\* chunk_text run a second time on the same pages and settings

ChunkTextAgain ==
    /\ call.op = "chunk_text" /\ call.status = "done"
    /\ \E uuids \in [1..NumChunks(call.pages, call.chunk_size, call.chunk_overlap) -> Uuids] :
          call' = [op |-> "chunk_text", status |-> "again", pages |-> call.pages,
                   chunk_size |-> call.chunk_size, chunk_overlap |-> call.chunk_overlap,
                   result |-> call.result,
                   second |-> chunk_text(call.pages, call.chunk_size, call.chunk_overlap,
                                         uuids)]
    /\ UNCHANGED world

NextRerun == ChunkTextCall \/ ChunkTextAgain

SpecRerun == InitChunk /\ [][NextRerun]_vars

\* C18: the second run returns the chunks of the first, equal in every field.
C18_Deterministic ==
    (call.op = "chunk_text" /\ call.status = "again") => call.second = call.result

----------------------------------------------------------------------------
\* upload_document: requests in flight together

\* SELECT ... FROM documents WHERE "userId" = $1: the ids of the user's rows
documents_of(docs, user_id) ==
    {d \in Docs : docs[d].status # "absent" /\ docs[d].userId = user_id}

InitUpload ==
    /\ document_embeddings = <<>>
    /\ documents = [d \in Docs |->
                      [status |-> "absent", userId |-> user_of(d), stored |-> FALSE,
                       file |-> file_of(d)]]
    /\ task = [d \in Docs |-> NoTask]
    /\ sentence_transformer_model = "None"
    /\ tfidf_vectorizer = [state |-> "None"]
    /\ history = <<>>
    /\ call = [r \in Requests |-> NoCall]

\* the one-document-per-user check and validate_pdf_file: 409 when the user
\* has a row, 400 for a file that is not a PDF, 500 when the query raises
UploadCheck(r) ==
    /\ call[r] = NoCall
    /\ \E user_id \in Users, db_ok \in BOOLEAN, valid \in BOOLEAN :
          call' = [call EXCEPT ![r] =
                      [op |-> "upload_document", user_id |-> user_id,
                       status |-> IF ~db_ok THEN "error"
                                  ELSE IF documents_of(documents, user_id) # {} THEN "conflict"
                                  ELSE IF ~valid THEN "invalid"
                                  ELSE "checked"]]
    /\ UNCHANGED world

\* document_id = str(uuid.uuid4()), await file.read(), await upload_file
UploadStore(r) ==
    /\ call[r].op = "upload_document" /\ call[r].status = "checked"
    /\ \E document_id \in {d \in Docs : documents[d].status = "absent" /\ ~documents[d].stored},
          storage_ok \in BOOLEAN :
          IF storage_ok
          THEN /\ documents' = [documents EXCEPT ![document_id].stored = TRUE]
               /\ call' = [call EXCEPT ![r] =
                              [op |-> "upload_document", user_id |-> call[r].user_id,
                               status |-> "stored", document_id |-> document_id]]
          ELSE /\ call' = [call EXCEPT ![r] =
                              [op |-> "upload_document", user_id |-> call[r].user_id,
                               status |-> "error"]]
               /\ UNCHANGED documents
    /\ UNCHANGED <<document_embeddings, sentence_transformer_model, tfidf_vectorizer, task,
                   history>>

\* INSERT INTO documents ... 'PROCESSING' and asyncio.create_task(
\* process_document_background(...)); 500 when the INSERT raises
UploadInsert(r) ==
    /\ call[r].op = "upload_document" /\ call[r].status = "stored"
    /\ \E db_ok \in BOOLEAN :
          IF db_ok
          THEN /\ documents' = [documents EXCEPT ![call[r].document_id] =
                                   [@ EXCEPT !.status = "PROCESSING",
                                             !.userId = call[r].user_id]]
               /\ task' = [task EXCEPT ![call[r].document_id] =
                              [NoTask EXCEPT !.pc = "scheduled", !.runs = 1]]
               /\ call' = [call EXCEPT ![r].status = "done"]
          ELSE /\ call' = [call EXCEPT ![r] =
                              [op |-> "upload_document", user_id |-> call[r].user_id,
                               status |-> "error"]]
               /\ UNCHANGED <<documents, task>>
    /\ UNCHANGED <<document_embeddings, sentence_transformer_model, tfidf_vectorizer, history>>

NextUpload ==
    \/ \E r \in Requests : UploadCheck(r)
    \/ \E r \in Requests : UploadStore(r)
    \/ \E r \in Requests : UploadInsert(r)

SpecUpload == InitUpload /\ [][NextUpload]_vars

\* C19: no user has two document rows.  (An upload that finds a row of its
\* user ends in the conflict and leaves rows and tasks as they are.)
C19_OneDocumentPerUser ==
    \A user_id \in Users : Cardinality(documents_of(documents, user_id)) <= 1

----------------------------------------------------------------------------
\* ingestion of files with and without content

\* no page; one page whose only sentence is shorter than 10 characters; one
\* page with a sentence that is kept
FileNoPage == <<>>
FileShortSentence == <<Page(1, Rep("a", 3) \o <<".">>)>>
IngestFiles == {FileNoPage, FileShortSentence, FileOnePage}

InitContent ==
    /\ document_embeddings = <<>>
    /\ \E files \in [Docs -> IngestFiles] :
          documents = [d \in Docs |->
                          [status |-> "PROCESSING", userId |-> user_of(d), stored |-> TRUE,
                           file |-> files[d]]]
    /\ task = [d \in Docs |-> [NoTask EXCEPT !.pc = "scheduled", !.runs = 1]]
    /\ sentence_transformer_model = "None"
    /\ tfidf_vectorizer = [state |-> "None"]
    /\ history = <<>>
    /\ call = NoCall

NextContent ==
    \/ LoadModel
    \/ \E d \in Docs : BgProcess(d)
    \/ \E d \in Docs : BgStore(d)
    \/ \E d \in Docs : BgComplete(d)
    \/ \E d \in Docs : BgFail(d)

SpecContent == InitContent /\ [][NextContent]_vars

\* segmentation of the document's pages yields no chunk
EmptyContent(d) == count_chunks(documents[d].file) = 0

\* C24: a document whose pages yield no chunk never has a record, vectors or
\* the status COMPLETED, and the step that finds it out goes to the failure
\* handling without touching the embedding state.
C24_EmptyContent ==
    /\ [](\A d \in Docs :
             EmptyContent(d) =>
                 /\ rows_of(d) = <<>>
                 /\ documents[d].status # "COMPLETED"
                 /\ task[d].pc \notin {"store", "complete"}
                 /\ task[d].embeddings = <<>>)
    /\ [][\A d \in Docs :
             (EmptyContent(d) /\ task[d].pc = "scheduled" /\ task'[d].pc # "scheduled") =>
                 /\ task'[d].pc = "failing"
                 /\ tfidf_vectorizer' = tfidf_vectorizer]_vars

\* the document without content ended FAILED next to one that was completed
C24_Witness ==
    \E d \in Docs, e \in Docs :
        /\ documents[d].file = FileShortSentence
        /\ task[d].pc = "ended" /\ task[d].outcome = "failed"
        /\ documents[d].status = "FAILED"
        /\ documents[e].status = "COMPLETED" /\ rows_of(e) # <<>>

----------------------------------------------------------------------------
\* _split_into_sentences on texts of fragments of 9, 10 and 11 characters

FragmentLens == {9, 10, 11}
Fragments ==
    {pad \o Rep(c, n) \o pad : c \in {"a", "b"}, n \in FragmentLens, pad \in {<<>>, <<" ">>}}
FragmentSeqs == UNION {[1..k -> Fragments] : k \in 1..MaxSentences}
TerminatorRuns == {<<".">>, <<"!", "?">>}

\* the fragments, each followed by the run of terminators
RECURSIVE terminated(_, _)
terminated(fragments, run) ==
    IF fragments = <<>> THEN <<>>
    ELSE Head(fragments) \o run \o terminated(Tail(fragments), run)

InitSplit ==
    /\ IdleGlobals
    /\ \E fragments \in FragmentSeqs, run \in TerminatorRuns :
          call = [op |-> "_split_into_sentences", status |-> "pending",
                  fragments |-> fragments, text |-> terminated(fragments, run)]

SplitCall ==
    /\ call.op = "_split_into_sentences" /\ call.status = "pending"
    /\ call' = [op |-> "_split_into_sentences", status |-> "done",
                fragments |-> call.fragments, text |-> call.text,
                result |-> _split_into_sentences(call.text)]
    /\ UNCHANGED world

NextSplit == SplitCall

SpecSplit == InitSplit /\ [][NextSplit]_vars

AtLeastTen(fragment) == Len(fragment) >= 10

\* C26: the sentences returned are the trimmed fragments of at least 10
\* characters, in their order; shorter ones are dropped.
C26_KeepsTenAndMore ==
    (call.op = "_split_into_sentences" /\ call.status = "done") =>
        call.result =
            SelectSeq([i \in 1..Len(call.fragments) |-> strip(call.fragments[i])], AtLeastTen)

----------------------------------------------------------------------------
\* the background tasks of the uploaded documents, each run to its end: the
\* event loop keeps running a task that can take a step

SpecLive ==
    /\ Init
    /\ [][NextContent]_vars
    /\ \A d \in Docs :
          /\ WF_vars(BgProcess(d))
          /\ WF_vars(BgStore(d))
          /\ WF_vars(BgComplete(d))
          /\ WF_vars(BgFail(d))

\* C29: a document in status PROCESSING reaches COMPLETED or FAILED.
C29_EventuallySettled ==
    \A d \in Docs :
        documents[d].status = "PROCESSING"
            ~> documents[d].status \in {"COMPLETED", "FAILED"}

============================================================================
